---- MODULE Spec2Model ----
(***************************************************************************)
(* Shufti mask compiler (components/parser/genshufmap.py) and its decoder  *)
(* (components/parser/parseshufmap.py).                                    *)
(*                                                                         *)
(* A category is a string, modelled as the sequence of its characters'    *)
(* code points (ord).  build_shufti_masks runs its for-loop one category   *)
(* per step; main prints the returned tables; parse_shufti_mask decodes    *)
(* them.  The verbose branch only writes a trace to stderr and is left     *)
(* out (verbose = False); main's hex rendering of the numbers is not       *)
(* modelled, stdout holds the numbers that are rendered.                   *)
(***************************************************************************)
EXTENDS Integers, Sequences, FiniteSets, TLC

VARIABLES cats, idx, cat_bit, high_mask, low_mask, cat_masks, pc, result,
          stdout, decoded

vars == <<cats, idx, cat_bit, high_mask, low_mask, cat_masks, pc, result,
          stdout, decoded>>

(***************************************************************************)
(* Python primitives.                                                      *)
(***************************************************************************)

\* range(16): the slots of a nibble table
Nibbles == 0 .. 15

\* range(8): the bits parse_shufti_mask decodes
DecodedBits == 0 .. 7

\* operator.or_ / the | of or_shufti_masks, on non-negative ints
RECURSIVE or_(_, _)
or_(a, b) ==
    IF a = 0 THEN b
    ELSE IF b = 0 THEN a
    ELSE (IF a % 2 = 1 \/ b % 2 = 1 THEN 1 ELSE 0) + 2 * or_(a \div 2, b \div 2)

\* the & of bit_test, on non-negative ints
RECURSIVE and_(_, _)
and_(a, b) ==
    IF a = 0 \/ b = 0 THEN 0
    ELSE (IF a % 2 = 1 /\ b % 2 = 1 THEN 1 ELSE 0) + 2 * and_(a \div 2, b \div 2)

\* sorted() of a set of ints, as a list
RECURSIVE SortedInts(_)
SortedInts(S) ==
    IF S = {} THEN <<>>
    ELSE LET m == CHOOSE x \in S : \A y \in S : x <= y
         IN  <<m>> \o SortedInts(S \ {m})

\* Python's < on two lists of ints: the first differing element decides,
\* and a proper prefix is smaller
ListLess(a, b) ==
    \E i \in 1 .. Len(b) :
        /\ i <= Len(a) + 1
        /\ \A j \in 1 .. (i - 1) : a[j] = b[j]
        /\ \/ i = Len(a) + 1
           \/ (i <= Len(a) /\ a[i] < b[i])

\* sorted() of a set of lists of ints, as a list
RECURSIVE SortedLists(_)
SortedLists(S) ==
    IF S = {} THEN <<>>
    ELSE LET m == CHOOSE x \in S : \A y \in S \ {x} : ListLess(x, y)
         IN  <<m>> \o SortedLists(S \ {m})

(***************************************************************************)
(* genshufmap.py                                                           *)
(***************************************************************************)

\* Item(c, ord(c), low=ord(c) & 0x0f, high=ord(c) >> 4)
Item(c) == [ord |-> c, high |-> c \div 16, low |-> c % 16]

\* items of one category, in the order of its characters
Items(cat) == [i \in DOMAIN cat |-> Item(cat[i])]

\* dict_by_unsorted(items, attrgetter(key)): the stable sort by key followed
\* by groupby gives one entry per key, ascending, each with its items in
\* their original order.  A list of <<key, items>>.
dict_by_unsorted(items, key) ==
    LET keys == SortedInts({items[i][key] : i \in DOMAIN items})
    IN  [k \in DOMAIN keys |->
            <<keys[k], SelectSeq(items, LAMBDA it : it[key] = keys[k])>>]

\* group_by_unsorted(l, itemgetter(pos)) on a list of (highs, lows) pairs:
\* the key is a list, compared as Python compares lists.  A list of
\* <<key, pairs>>; pos is Python's index (0: highs, 1: lows).
group_by_unsorted(l, pos) ==
    LET keys == SortedLists({l[i][pos + 1] : i \in DOMAIN l})
    IN  [k \in DOMAIN keys |->
            <<keys[k], SelectSeq(l, LAMBDA p : p[pos + 1] = keys[k])>>]

\* hmask1: one ([high], lows) per high nibble
hmask1(items) ==
    LET hreduce == dict_by_unsorted(items, "high")
    IN  [k \in DOMAIN hreduce |->
            << <<hreduce[k][1]>>,
               [j \in DOMAIN hreduce[k][2] |-> hreduce[k][2][j].low] >>]

\* hmask2: the entries of hmask1 with equal lows lists, merged
hmask2(items) ==
    LET g == group_by_unsorted(hmask1(items), 1)
    IN  [k \in DOMAIN g |->
            << [j \in DOMAIN g[k][2] |-> g[k][2][j][1][1]], g[k][1] >>]

\* lmask1: one (highs, [low]) per low nibble
lmask1(items) ==
    LET lreduce == dict_by_unsorted(items, "low")
    IN  [k \in DOMAIN lreduce |->
            << [j \in DOMAIN lreduce[k][2] |-> lreduce[k][2][j].high],
               <<lreduce[k][1]>> >>]

\* lmask2: the entries of lmask1 with equal highs lists, merged
lmask2(items) ==
    LET g == group_by_unsorted(lmask1(items), 0)
    IN  [k \in DOMAIN g |->
            << g[k][1], [j \in DOMAIN g[k][2] |-> g[k][2][j][2][1]] >>]

\* mask with <= for <: group-by-high wins a tie
mask_high_on_tie(items) ==
    IF Len(hmask2(items)) <= Len(lmask2(items))
    THEN hmask2(items) ELSE lmask2(items)

\* mask without the comparison: always group-by-low
mask_always_low(items) == lmask2(items)

\* mask with > for <: the reduction with more groups wins
mask_larger(items) ==
    IF Len(hmask2(items)) > Len(lmask2(items))
    THEN hmask2(items) ELSE lmask2(items)

\* mask = hmask2 if len(hmask2) < len(lmask2) else lmask2
mask(items) ==
    IF Len(hmask2(items)) < Len(lmask2(items))
    THEN hmask2(items) ELSE lmask2(items)

\* the groups of one category
CatGroups(cat) == mask(Items(cat))

\* shufti_mask(values, bit)
shufti_mask(values, bit) ==
    [i \in Nibbles |->
        IF \E k \in DOMAIN values : values[k] = i THEN 2 ^ bit ELSE 0]

\* or_shufti_masks(left, right)
or_shufti_masks(left, right) == [i \in Nibbles |-> or_(left[i], right[i])]

\* [0] * 16
ZeroMask == [i \in Nibbles |-> 0]

\* reduce(or_shufti_masks, [shufti_mask(l[k][side], i) for i, .. in
\* enumerate(l, start=cat_bit)], [0] * 16), for side 1 (highs) or 2 (lows)
RECURSIVE reduce_shufti(_, _, _, _)
reduce_shufti(l, side, bit, acc) ==
    IF l = <<>> THEN acc
    ELSE reduce_shufti(Tail(l), side, bit + 1,
                       or_shufti_masks(acc, shufti_mask(Head(l)[side], bit)))

\* build_nibble_masks without start=cat_bit: every category from bit 0
build_nibble_masks_from_zero(l, bit) ==
    << reduce_shufti(l, 1, 0, ZeroMask), reduce_shufti(l, 2, 0, ZeroMask) >>

\* build_nibble_masks(l, cat_bit): (high table, low table) of one category
build_nibble_masks(l, bit) ==
    << reduce_shufti(l, 1, bit, ZeroMask), reduce_shufti(l, 2, bit, ZeroMask) >>

\* bit_mask(range(lo, hi))
RECURSIVE bit_mask(_, _)
bit_mask(lo, hi) ==
    IF lo >= hi THEN 0 ELSE or_(2 ^ lo, bit_mask(lo + 1, hi))

\* cat_mask over range(cat_bit + n_cat_bits): the start of the range lost
cat_mask_from_zero(bit, n) == bit_mask(0, bit + n)

\* cat_mask over an inclusive range: one bit too many
cat_mask_inclusive(bit, n) == bit_mask(bit, bit + n + 1)

\* cat_mask = bit_mask(range(cat_bit, cat_bit + n_cat_bits))
cat_mask_of(bit, n) == bit_mask(bit, bit + n)

\* the capacity test with > for >=
NoSolution_gt(bit, n) == bit + n > 8

\* the capacity test of the loop body: cat_bit + n_cat_bits >= 8
NoSolution(bit, n) == bit + n >= 8

(***************************************************************************)
(* parseshufmap.py                                                         *)
(***************************************************************************)

\* bit_test(bits, bit)
bit_test(bits, bit) == and_(bits, 2 ^ bit) # 0

\* parse_shufti_mask(high, low): per bit, (highs, lows) as ascending lists
parse_shufti_mask(high, low) ==
    [i \in DecodedBits |->
        << SortedInts({j \in Nibbles : bit_test(high[j], i)}),
           SortedInts({j \in Nibbles : bit_test(low[j], i)}) >>]

(***************************************************************************)
(* build_shufti_masks and main as a state machine.                         *)
(***************************************************************************)

\* the locals of build_shufti_masks before the loop (lines 67-72)
LoopStart ==
    [cat_bit |-> 0, high_mask |-> ZeroMask, low_mask |-> ZeroMask,
     cat_masks |-> <<>>, exited |-> FALSE]

\* one pass of the for-loop body over category cat, from the locals st:
\* either sys.exit(1) (exited, the locals as they were) or the new locals
for_body(st, cat) ==
    LET m == CatGroups(cat)
        cat_shufti_mask == build_nibble_masks(m, st.cat_bit)
        n_cat_bits == Len(m)
    IN  IF NoSolution(st.cat_bit, n_cat_bits)
        THEN [st EXCEPT !.exited = TRUE]
        ELSE [cat_bit   |-> st.cat_bit + n_cat_bits,
              high_mask |-> or_shufti_masks(st.high_mask, cat_shufti_mask[1]),
              low_mask  |-> or_shufti_masks(st.low_mask, cat_shufti_mask[2]),
              cat_masks |-> Append(st.cat_masks,
                                   cat_mask_of(st.cat_bit, n_cat_bits)),
              exited    |-> FALSE]

\* the locals of the running call
Locals ==
    [cat_bit |-> cat_bit, high_mask |-> high_mask, low_mask |-> low_mask,
     cat_masks |-> cat_masks, exited |-> FALSE]

\* no value: nothing returned, printed or decoded yet
None == <<>>

InitWith(inputs) ==
    /\ cats \in inputs
    /\ idx = 1
    /\ cat_bit = LoopStart.cat_bit
    /\ high_mask = LoopStart.high_mask
    /\ low_mask = LoopStart.low_mask
    /\ cat_masks = LoopStart.cat_masks
    /\ pc = "loop"
    /\ result = None
    /\ stdout = None
    /\ decoded = None

\* a loop pass that assigns the category its bits (lines 73-106)
ForBody ==
    /\ pc = "loop"
    /\ idx <= Len(cats)
    /\ \E st \in {for_body(Locals, cats[idx])} :
           /\ ~st.exited
           /\ cat_bit' = st.cat_bit
           /\ high_mask' = st.high_mask
           /\ low_mask' = st.low_mask
           /\ cat_masks' = st.cat_masks
    /\ idx' = idx + 1
    /\ UNCHANGED <<cats, pc, result, stdout, decoded>>

\* a loop pass that ends the process: "no solution found", sys.exit(1)
\* (lines 97-99)
SysExit ==
    /\ pc = "loop"
    /\ idx <= Len(cats)
    /\ for_body(Locals, cats[idx]).exited
    /\ pc' = "exit1"
    /\ UNCHANGED <<cats, idx, cat_bit, high_mask, low_mask, cat_masks, result,
                   stdout, decoded>>

\* return cat_masks, high_mask, low_mask (line 113)
Return ==
    /\ pc = "loop"
    /\ idx > Len(cats)
    /\ result' = <<cat_masks, high_mask, low_mask>>
    /\ pc' = "returned"
    /\ UNCHANGED <<cats, idx, cat_bit, high_mask, low_mask, cat_masks, stdout,
                   decoded>>

\* main prints high, low and the category masks, format "rust" (lines 134-138)
MainPrint ==
    /\ pc = "returned"
    /\ stdout' = <<result[2], result[3], result[1]>>
    /\ pc' = "printed"
    /\ UNCHANGED <<cats, idx, cat_bit, high_mask, low_mask, cat_masks, result,
                   decoded>>

\* parse_shufti_mask on the printed tables
Decode ==
    /\ pc = "printed"
    /\ decoded' = parse_shufti_mask(stdout[1], stdout[2])
    /\ pc' = "decoded"
    /\ UNCHANGED <<cats, idx, cat_bit, high_mask, low_mask, cat_masks, result,
                   stdout>>

Next == ForBody \/ SysExit \/ Return \/ MainPrint \/ Decode

\* build_shufti_masks as a function of its argument: the loop folded over
\* cs from the locals st; the result has exited set at sys.exit(1)
RECURSIVE build_from(_, _)
build_from(st, cs) ==
    IF cs = <<>> \/ st.exited THEN st
    ELSE build_from(for_body(st, Head(cs)), Tail(cs))

build_shufti_masks(cs) == build_from(LoopStart, cs)

(***************************************************************************)
(* Inputs.                                                                 *)
(***************************************************************************)

\* the strings over alphabet A of length at most n
StringsUpTo(A, n) == UNION {[1 .. k -> A] : k \in 0 .. n}

\* the lists of at most n categories from pool P
ListsUpTo(P, n) == UNION {[1 .. k -> P] : k \in 0 .. n}

\* the strings a character class expands to: main's --regex gives each
\* category as its members in ascending order, each once (lines 127-132)
ClassStrings(A) == {SortedInts(S) : S \in SUBSET A}

\* [" \t\n\r", "<>", "&;", "\"", "="]
XmlCats ==
    << <<32, 9, 10, 13>>, <<60, 62>>, <<38, 59>>, <<34>>, <<61>> >>

\* the same with "'" as a sixth category
XmlCatsApos == XmlCats \o << <<39>> >>

\* Spec: lists of at most MaxCats character classes over ListAlphabet,
\* single categories that are any string of at most MaxCatLen characters
\* (any order, repeats) over StringAlphabet, and the two XML lists
MaxCats == 3

MaxCatLen == 4

\* 0x11 0x12 0x21
ListAlphabet == {17, 18, 33}

\* 0x11 0x12 0x21 0x22
StringAlphabet == {17, 18, 33, 34}

ListInputs ==
    ListsUpTo(ClassStrings(ListAlphabet), MaxCats)
        \cup {<<s>> : s \in StringsUpTo(StringAlphabet, MaxCatLen)}
        \cup {XmlCats, XmlCatsApos}

Init == InitWith(ListInputs)

Spec == Init /\ [][Next]_vars

\* SpecCap: lists of at most MaxCapCats categories, each a character class
\* over CapAlphabet or the class CapWide; such a class needs as many groups
\* as it has members
MaxCapCats == 3

\* 0x11 0x22 0x33
CapAlphabet == {17, 34, 51}

\* "\x11\x22\x33\x44"
CapWide == <<17, 34, 51, 68>>

CapInputs ==
    ListsUpTo(ClassStrings(CapAlphabet) \cup {CapWide}, MaxCapCats)

InitCap == InitWith(CapInputs)

SpecCap == InitCap /\ [][Next]_vars

\* SpecClass: one category, any character class over the 3 x 3 block of
\* high and low nibbles 1..3; and the two XML lists
ClassNibbles == {1, 2, 3}

ClassAlphabet == {16 * h + l : h \in ClassNibbles, l \in ClassNibbles}

ClassInputs ==
    {<<s>> : s \in ClassStrings(ClassAlphabet)} \cup {XmlCats, XmlCatsApos}

InitClass == InitWith(ClassInputs)

SpecClass == InitClass /\ [][Next]_vars

(***************************************************************************)
(* Vocabulary of the properties.                                           *)
(***************************************************************************)

\* the member set of a category
Members(cat) == {cat[i] : i \in DOMAIN cat}

\* the elements of a list
Elems(l) == {l[i] : i \in DOMAIN l}

\* the bytes (h << 4 | l) a (highs, lows) pair stands for
Product(pair) == {16 * h + l : h \in Elems(pair[1]), l \in Elems(pair[2])}

\* the bits set in a mask
BitsOf(m) == {i \in DecodedBits : bit_test(m, i)}

\* the bytes decoded for the bits of category mask m
CatChars(dec, m) == UNION {Product(dec[i]) : i \in BitsOf(m)}

\* the consumer's test (high_mask[h] & low_mask[l]) & category_mask != 0
Classified(hm, lm, b, m) == and_(and_(hm[b \div 16], lm[b % 16]), m) # 0

\* the process is over: sys.exit(1), or the tables are returned
Finished == pc \in {"exit1", "returned", "printed", "decoded"}

\* the compilation succeeded
Succeeded == pc \in {"returned", "printed", "decoded"}

(***************************************************************************)
(* C1  Round trip.                                                         *)
(***************************************************************************)

\* C1: whenever a list of categories compiles, decoding the returned tables
\* and uniting, over the bits of one category's mask, the bytes of
\* highs(i) x lows(i) gives exactly that category's members.
C1_RoundTrip ==
    pc = "decoded" =>
        \A k \in DOMAIN cats :
            CatChars(decoded, result[1][k]) = Members(cats[k])

\* a decoded compilation of several categories, one of them with two groups
\* and one given out of order
C1_Witness ==
    /\ pc = "decoded"
    /\ Len(cats) >= 3
    /\ \E k \in DOMAIN cats : Cardinality(BitsOf(result[1][k])) >= 2
    /\ \A k \in DOMAIN cats : cats[k] # <<>>

(***************************************************************************)
(* C2  Disjointness across categories.                                     *)
(***************************************************************************)

\* C2: in a successful compilation, two categories with disjoint member
\* sets have category masks with no common bit, and no byte that belongs
\* to only one of them is classified into both.
C2_Disjoint ==
    Succeeded =>
        \A a, b \in DOMAIN cats :
            (a # b /\ Members(cats[a]) \cap Members(cats[b]) = {}) =>
                /\ and_(result[1][a], result[1][b]) = 0
                /\ \A c \in Members(cats[a]) \cup Members(cats[b]) :
                       ~(/\ Classified(result[2], result[3], c, result[1][a])
                         /\ Classified(result[2], result[3], c, result[1][b]))

\* two disjoint non-empty categories that share a high and a low nibble
\* slot, compiled
C2_Witness ==
    /\ Succeeded
    /\ \E a, b \in DOMAIN cats :
           /\ a # b
           /\ cats[a] # <<>> /\ cats[b] # <<>>
           /\ Members(cats[a]) \cap Members(cats[b]) = {}
           /\ \E x \in Members(cats[a]), y \in Members(cats[b]) :
                  x \div 16 = y \div 16
           /\ \E x \in Members(cats[a]), y \in Members(cats[b]) :
                  x % 16 = y % 16

(***************************************************************************)
(* C3, C10  Capacity.                                                      *)
(***************************************************************************)

\* the number of groups each category of cs needs
GroupCounts(cs) == [k \in DOMAIN cs |-> Len(CatGroups(cs[k]))]

\* the sum of the first k - 1 entries of ns
RECURSIVE SumBefore(_, _)
SumBefore(ns, k) ==
    IF k <= 1 THEN 0 ELSE SumBefore(ns, k - 1) + ns[k - 1]

\* the sum of ns
Total(ns) == SumBefore(ns, Len(ns) + 1)

\* the positions of group counts ns that bring the running count to 8 or
\* more
Overflows(ns) == {k \in DOMAIN ns : SumBefore(ns, k) + ns[k] >= 8}

\* the first such position, 0 when there is none
FirstOverflow(ns) ==
    IF Overflows(ns) = {} THEN 0
    ELSE CHOOSE k \in Overflows(ns) : \A j \in Overflows(ns) : k <= j

\* C3: a list needing exactly 8 groups compiles and returns tables, and a
\* list needing 9 groups fails with the capacity error and no tables.
C3_CapacityBoundary ==
    Finished =>
        \A total \in {Total(GroupCounts(cats))} :
            /\ total = 8 => (Succeeded /\ result # None)
            /\ total = 9 => (pc = "exit1" /\ result = None)

\* C10: compilation fails exactly at the first category for which
\* counter + n >= 8; no later category is processed and nothing is returned
\* or printed; with no such category it succeeds with the counter at the
\* sum of all n, and every table entry and category mask lies below
\* 2^counter.
C10_EagerFailure ==
    \A ns \in {GroupCounts(cats)} :
    \A first \in {FirstOverflow(ns)} :
        /\ pc = "loop" =>
               /\ first # 0 => idx <= first
               /\ first = 0 => idx <= Len(cats) + 1
        /\ pc = "exit1" =>
               /\ idx = first
               /\ Len(cat_masks) = idx - 1
               /\ cat_bit = SumBefore(ns, idx)
               /\ result = None /\ stdout = None /\ decoded = None
        /\ Succeeded =>
               /\ first = 0
               /\ result = <<cat_masks, high_mask, low_mask>>
               /\ Len(cat_masks) = Len(cats)
               /\ cat_bit = Total(ns)
               /\ \A j \in Nibbles :
                      high_mask[j] < 2 ^ cat_bit /\ low_mask[j] < 2 ^ cat_bit
               /\ \A k \in DOMAIN cat_masks : cat_masks[k] < 2 ^ cat_bit
        /\ Finished => (pc = "exit1" <=> first # 0)

\* a failure with a category left unprocessed behind it
C10_Witness ==
    /\ pc = "exit1"
    /\ idx < Len(cats)
    /\ cat_bit > 0

(***************************************************************************)
(* C4  The XML scenario.                                                   *)
(***************************************************************************)

\* C4 as stated: compiling [" \t\n\r", "<>", "&;", "\"", "="] succeeds,
\* each category is reduced to 1 group, at most 5 bits are consumed, and
\* bit 0 decodes to exactly {space, tab, newline, carriage return}.
C4_XmlScenarioAsStated ==
    cats = XmlCats =>
        /\ pc # "exit1"
        /\ pc = "decoded" =>
               /\ \A k \in DOMAIN cats : Cardinality(BitsOf(result[1][k])) = 1
               /\ cat_bit <= 5
               /\ Product(decoded[0]) = {32, 9, 10, 13}

\* C4 amended: compiling the five categories succeeds with 2, 1, 2, 1 and 1
\* groups, 7 bits in total and category masks 0x03, 0x04, 0x18, 0x20, 0x40;
\* bit 0 decodes to {tab, newline, carriage return} and bit 1 to {space},
\* so the four whitespace characters are the bits of mask 0x03 together.
C4_XmlScenario ==
    cats = XmlCats =>
        /\ pc # "exit1"
        /\ pc = "decoded" =>
               /\ result[1] = <<3, 4, 24, 32, 64>>
               /\ cat_bit = 7
               /\ Product(decoded[0]) = {9, 10, 13}
               /\ Product(decoded[1]) = {32}
               /\ CatChars(decoded, result[1][1]) = {32, 9, 10, 13}

\* the scenario compiled and decoded
C4_Witness == cats = XmlCats /\ pc = "decoded"

(***************************************************************************)
(* C6  Tie-break.                                                          *)
(***************************************************************************)

\* the (highs, lows) pairs of groups gs as sets, in order
AsSets(gs) == [i \in DOMAIN gs |-> <<Elems(gs[i][1]), Elems(gs[i][2])>>]

\* what the tables decode to on the n bits from start, as sets, in order
DecodedSets(dec, start, n) ==
    [i \in 1 .. n |->
        <<Elems(dec[start + i - 1][1]), Elems(dec[start + i - 1][2])>>]

\* the lowest bit of category k: the bits the categories before it took
StartBit(masks, k) ==
    Cardinality(UNION {BitsOf(masks[j]) : j \in 1 .. (k - 1)})

\* C6: a category whose group-by-high and group-by-low reductions have the
\* same number of groups is assigned the groups of group-by-low, in their
\* order; group-by-high is used only when it has strictly fewer groups.
C6_TieBreak ==
    pc = "decoded" =>
        \A k \in DOMAIN cats :
        \A h \in {hmask2(Items(cats[k]))} :
        \A l \in {lmask2(Items(cats[k]))} :
        \A got \in {DecodedSets(decoded, StartBit(result[1], k),
                                Cardinality(BitsOf(result[1][k])))} :
            /\ Len(h) >= Len(l) => got = AsSets(l)
            /\ Len(h) < Len(l) => got = AsSets(h)

\* a decoded category whose two reductions tie with different groups
C6_Witness ==
    /\ pc = "decoded"
    /\ \E k \in DOMAIN cats :
           /\ Len(hmask2(Items(cats[k]))) = Len(lmask2(Items(cats[k])))
           /\ AsSets(hmask2(Items(cats[k]))) # AsSets(lmask2(Items(cats[k])))
           /\ k > 1 /\ cats[1] # <<>>

(***************************************************************************)
(* C7  Empty category.                                                     *)
(***************************************************************************)

\* list l without its k-th element
Remove(l, k) == SubSeq(l, 1, k - 1) \o SubSeq(l, k + 1, Len(l))

\* C7: an empty category never causes the capacity failure and gets mask
\* 0; the counter, the tables and every other category's mask are those of
\* the compilation of the list without it.
C7_EmptyCategory ==
    /\ pc = "exit1" => cats[idx] # <<>>
    /\ pc \in {"loop", "exit1", "returned"} =>
           \A k \in 1 .. (idx - 1) :
               cats[k] = <<>> =>
                   \A r \in {build_shufti_masks(
                                 Remove(SubSeq(cats, 1, idx - 1), k))} :
                       /\ ~r.exited
                       /\ cat_masks[k] = 0
                       /\ r.cat_bit = cat_bit
                       /\ r.high_mask = high_mask
                       /\ r.low_mask = low_mask
                       /\ r.cat_masks = Remove(cat_masks, k)
    /\ Finished =>
           \A k \in DOMAIN cats :
               cats[k] = <<>> =>
                   build_shufti_masks(Remove(cats, k)).exited = (pc = "exit1")

\* a compilation with an empty category between two non-empty ones
C7_Witness ==
    /\ pc = "returned"
    /\ \E k \in DOMAIN cats :
           /\ cats[k] = <<>>
           /\ k > 1 /\ cats[k - 1] # <<>>
           /\ k < Len(cats) /\ cats[k + 1] # <<>>

(***************************************************************************)
(* C8  One high nibble.                                                    *)
(***************************************************************************)

\* C8: a non-empty category whose members share one high nibble, in any
\* order and with or without repeats, gets exactly 1 group and 1 bit.
C8_SingleHighNibble ==
    \A k \in 1 .. (idx - 1) :
        (cats[k] # <<>> /\ Cardinality({c \div 16 : c \in Members(cats[k])}) = 1)
            => /\ Len(CatGroups(cats[k])) = 1
               /\ Cardinality(BitsOf(cat_masks[k])) = 1

\* a processed category with one high nibble, two low nibbles, a repeat and
\* descending order
C8_Witness ==
    /\ idx = 2
    /\ cats = << <<18, 17, 17>> >>

(***************************************************************************)
(* C9  Merging by set equality.                                            *)
(***************************************************************************)

\* the low nibbles category members S have under high nibble h
LowSet(S, h) == {c % 16 : c \in {d \in S : d \div 16 = h}}

\* the high nibbles category members S have over low nibble l
HighSet(S, l) == {c \div 16 : c \in {d \in S : d % 16 = l}}

\* nibbles x and y lie in one group of gs, on side 1 (highs) or 2 (lows)
SameGroup(gs, side, x, y) ==
    \E g \in DOMAIN gs : x \in Elems(gs[g][side]) /\ y \in Elems(gs[g][side])

\* the string cat with its characters rearranged by p
Permuted(cat, p) == [i \in DOMAIN cat |-> cat[p[i]]]

\* C9: in group-by-high two high nibbles of a category share a group
\* exactly when their sets of low nibbles are equal, and symmetrically in
\* group-by-low, whatever the order and the repeats of the characters; so
\* every permutation of a category gets the same number of groups.
C9_MergeBySetEquality ==
    \A k \in 1 .. (idx - 1) :
    \A S \in {Members(cats[k])} :
        /\ \A x, y \in {c \div 16 : c \in S} :
               SameGroup(hmask2(Items(cats[k])), 1, x, y)
                   <=> LowSet(S, x) = LowSet(S, y)
        /\ \A x, y \in {c % 16 : c \in S} :
               SameGroup(lmask2(Items(cats[k])), 2, x, y)
                   <=> HighSet(S, x) = HighSet(S, y)
        /\ \A p \in Permutations(DOMAIN cats[k]) :
               Len(CatGroups(Permuted(cats[k], p)))
                   = Cardinality(BitsOf(cat_masks[k]))

(***************************************************************************)
(* C5  Group count.                                                        *)
(***************************************************************************)

\* the products highs x lows of non-empty nibble sets that lie within S
Rects(S) ==
    {r \in {Product(<<SortedInts(H), SortedInts(L)>>) :
               H \in SUBSET {c \div 16 : c \in S} \ {{}},
               L \in SUBSET {c % 16 : c \in S} \ {{}}} : r \subseteq S}

\* T is covered by at most k of the products rs
RECURSIVE Coverable(_, _, _)
Coverable(rs, T, k) ==
    \/ T = {}
    \/ /\ k > 0
       /\ \E r \in rs : r \cap T # {} /\ Coverable(rs, T \ r, k - 1)

\* the least number of products highs x lows whose union is exactly S
MinGroups(S) ==
    LET rs == Rects(S)
    IN  CHOOSE k \in 0 .. Cardinality(S) :
            /\ Coverable(rs, S, k)
            /\ k > 0 => ~Coverable(rs, S, k - 1)

\* the smaller of two numbers
Min(a, b) == IF a < b THEN a ELSE b

\* C5 as stated: the number of groups of every category is the minimum
\* number of products highs x lows whose union is exactly its member set.
C5_MinimalAsStated ==
    \A k \in 1 .. (idx - 1) :
        Cardinality(BitsOf(cat_masks[k])) = MinGroups(Members(cats[k]))

\* C5 amended: the number of groups of every category is the smaller of
\* the group counts of the group-by-high and the group-by-low reduction;
\* the groups' products unite to exactly the member set, so the number is
\* never below the minimum, but it can be above it.
C5_GroupCount ==
    \A k \in 1 .. (idx - 1) :
    \A n \in {Cardinality(BitsOf(cat_masks[k]))} :
    \A S \in {Members(cats[k])} :
        /\ n = Min(Len(hmask2(Items(cats[k]))), Len(lmask2(Items(cats[k]))))
        /\ n = Len(CatGroups(cats[k]))
        /\ UNION {Product(CatGroups(cats[k])[g]) : g \in 1 .. n} = S
        /\ MinGroups(S) <= n

\* a processed character class that gets 3 groups where 2 products suffice:
\* {0x11 0x12 0x21 0x22 0x23 0x32 0x33} = {1,2} x {1,2} + {2,3} x {2,3}
C5_Witness ==
    /\ idx = 2
    /\ cats = << <<17, 18, 33, 34, 35, 50, 51>> >>
    /\ Cardinality(BitsOf(cat_masks[1])) = 3
    /\ Coverable(Rects(Members(cats[1])), Members(cats[1]), 2)

====
